---- MODULE Spec2Model ----
(***************************************************************************)
(* Linfit (src/optimizer.py): the integer pair (x, y) that leaves the      *)
(* smallest residual L - a*x - b*y.                                        *)
(*                                                                         *)
(* Arithmetic is exact.  The coefficients and the target are rationals;    *)
(* they are written here as integer multiples of one common unit, so a, b, *)
(* L and every residual are integers of that unit, while a quotient such   *)
(* as (L - a*x)/b is kept as a fraction <<numerator, denominator>>.        *)
(***************************************************************************)
EXTENDS Integers, Sequences, FiniteSets

\* Bounds of the model: the arguments drawn for Linfit(a, b) and solve(L).
MaxCoef == 4
MaxNegCoef == 1
MaxL == 8
MaxNegL == 4

Coefs == (0 - MaxNegCoef)..MaxCoef
Targets == (0 - MaxNegL)..MaxL

VARIABLES
    args,           \* the arguments Linfit was constructed with, [a, b]
    self,           \* the instance's attributes: [a, b], and L once solve ran
    pc,             \* "ready": no solve running; "scan": the consumer waits
                    \* for the generator; "yielded": the generator is
                    \* suspended at its yield
    x_range,        \* n of range(n), the x values of the running solve
    gen,            \* the generator's frame: [min_error, min_x, x]
    min_error,      \* _undercutMinError's running minimum
    best_x_values,  \* _undercutMinError's list of tied x values
    outcome,        \* what the last solve returned or raised
    evaluated,      \* history: the candidates _getError computed, in order
    eq_taken,       \* history: the consumer's equality branch was taken
    prev            \* history: <<L>> of the solve before this one, or <<>>

vars == <<args, self, pc, x_range, gen, min_error, best_x_values, outcome,
          evaluated, eq_taken, prev>>

----------------------------------------------------------------------------
\* Numbers.

\* float('inf') and the finite residuals it is compared with.
Inf == [inf |-> TRUE, v |-> 0]
Fin(v) == [inf |-> FALSE, v |-> v]
Less(p, q) == ~p.inf /\ (q.inf \/ p.v < q.v)

Abs(n) == IF n < 0 THEN 0 - n ELSE n

\* The largest integer not above n/d, d # 0.
FloorDiv(n, d) == IF d > 0 THEN n \div d ELSE (0 - n) \div (0 - d)

\* int(n/d): Python's int() of a real drops the fraction, towards zero.
PyInt(n, d) ==
    LET q == Abs(n) \div Abs(d)
    IN  IF (n < 0) # (d < 0) THEN 0 - q ELSE q

\* y % 1 of the fraction y: Python's remainder takes the divisor's sign, so
\* it is y - floor(y), in [0, 1).
PyMod1(y) == <<y[1] - y[2] * FloorDiv(y[1], y[2]), y[2]>>

\* The difference of two fractions of one denominator.
FracSub(p, q) == <<p[1] - q[1], p[2]>>

----------------------------------------------------------------------------
\* The methods of Linfit, as functions of the instance s = [a, b, L].

\* A slip in the comparison: the coefficients are switched when a > b.
_reduceResidualsInVarSwitching_reversed(a, b) ==
    IF a > b THEN [a |-> b, b |-> a] ELSE [a |-> a, b |-> b]

\* __init__ -> _reduceResidualsInVarSwitching: the larger coefficient first.
_reduceResidualsInVarSwitching(a, b) ==
    IF a < b THEN [a |-> b, b |-> a] ELSE [a |-> a, b |-> b]

\* Slips in the range's end: range(int(L / a)) and range(int(L / a) + 2).
_getValidXRange_noPlusOne(s) == PyInt(s.L, s.a)
_getValidXRange_plusTwo(s) == PyInt(s.L, s.a) + 2

\* range(int(L / a) + 1), as its n.  L / a raises when a = 0.
_getValidXRange(s) == PyInt(s.L, s.a) + 1

\* (L - a*x) / b, raising when b = 0.
_y(s, x) == <<s.L - s.a * x, s.b>>

\* A slip in the rounding: int(y + 1 - y % 1), rounding up.
_max_y_int_roundUp(y) ==
    LET w == FracSub(<<y[1] + y[2], y[2]>>, PyMod1(y))
    IN  PyInt(w[1], w[2])

\* int(y - y % 1)
_max_y_int(y) ==
    LET w == FracSub(y, PyMod1(y))
    IN  PyInt(w[1], w[2])

\* A slip in a sign: L - a*x + b*y.
_errorPlane_wrongSign(s, x, y) == s.L - s.a * x + s.b * y

_errorPlane(s, x, y) == s.L - s.a * x - s.b * y

_getError(s, x_int) ==
    LET y_int == _max_y_int(_y(s, x_int))
    IN  _errorPlane(s, x_int, y_int)

\* The generator's frame as it starts: min_error = float('inf'), min_x = None
\* (written <<>>; a set min_x is <<x>>), and the next x of the range.
GenStart == [min_error |-> Inf, min_x |-> <<>>, x |-> 0]

\* A slip in the generator's test: error <= min_error.
GenImproves_orEqual(error, m) == m.inf \/ error <= m.v

\* The generator's test, error < min_error.
GenImproves(error, m) == Less(Fin(error), m)

\* One pass of the generator's loop body for x = g.x: the frame after it.
GenBody(s, g) ==
    LET error == _getError(s, g.x)
    IN  IF GenImproves(error, g.min_error)
        THEN [min_error |-> Fin(error), min_x |-> <<g.x>>, x |-> g.x + 1]
        ELSE [g EXCEPT !.x = g.x + 1]

\* Whether that pass reaches the yield.
GenYields(s, g) == GenImproves(_getError(s, g.x), g.min_error)

\* _undercutMinError's locals as it starts.
UndercutStart == [min_error |-> Inf, best_x_values |-> <<>>, eq |-> FALSE]

\* One pass of _undercutMinError's loop body for the pair (error, x).
UndercutBody(u, error, x) ==
    IF Less(error, u.min_error)
    THEN [u EXCEPT !.min_error = error, !.best_x_values = <<x>>]
    ELSE IF error = u.min_error
         THEN [u EXCEPT !.best_x_values = Append(u.best_x_values, x),
                        !.eq = TRUE]
         ELSE u

\* max(best_x_values) of a non-empty list.
MaxOf(xs) ==
    CHOOSE m \in {xs[i] : i \in DOMAIN xs} :
        \A i \in DOMAIN xs : xs[i] <= m

\* len(range(n))
RangeLen(n) == IF n > 0 THEN n ELSE 0

NoOutcome == [kind |-> "none", exc |-> "", x |-> 0, y |-> 0, len_resi |-> 0]
Raised(e) == [kind |-> "raised", exc |-> e, x |-> 0, y |-> 0, len_resi |-> 0]
Returned(x, y, n) ==
    [kind |-> "returned", exc |-> "", x |-> x, y |-> y, len_resi |-> n]

\* The end of solve once the generator is exhausted: max() of an empty list
\* raises ValueError, otherwise y_sol is computed from x_sol, the report is
\* printed with len(x_range) and the pair is returned.
SolveEnd(s, n, best) ==
    IF best = <<>>
    THEN Raised("ValueError")
    ELSE LET x_sol == MaxOf(best)
             y_sol == _max_y_int(_y(s, x_sol))
         IN  Returned(x_sol, y_sol, RangeLen(n))

\* The scan from the frames (g, u) to the generator's end: the consumer's
\* locals after the last pair.
RECURSIVE _undercutMinError(_, _, _, _)
_undercutMinError(s, n, g, u) ==
    IF g.x >= n
    THEN u
    ELSE LET h == GenBody(s, g)
         IN  IF GenYields(s, g)
             THEN _undercutMinError(s, n, h,
                                    UndercutBody(u, h.min_error, h.min_x[1]))
             ELSE _undercutMinError(s, n, h, u)

\* solve(L) on an instance with the attributes a and b, run to its end: what
\* the call returns or raises.
solve(a, b, L) ==
    LET s == [a |-> a, b |-> b, L |-> L]
    IN  IF s.a = 0
        THEN Raised("ZeroDivisionError")
        ELSE LET n == _getValidXRange(s)
             IN  IF n > 0 /\ s.b = 0
                 THEN Raised("ZeroDivisionError")
                 ELSE SolveEnd(s, n,
                        _undercutMinError(s, n, GenStart,
                                          UndercutStart).best_x_values)

----------------------------------------------------------------------------
\* The program: an instance is constructed, then solve is called on it any
\* number of times; a call runs the generator and its consumer in turn.

Init ==
    /\ \E a \in Coefs, b \in Coefs :
          /\ args = [a |-> a, b |-> b]
          /\ self = _reduceResidualsInVarSwitching(a, b)
    /\ pc = "ready"
    /\ x_range = 0
    /\ gen = GenStart
    /\ min_error = UndercutStart.min_error
    /\ best_x_values = UndercutStart.best_x_values
    /\ outcome = NoOutcome
    /\ evaluated = <<>>
    /\ eq_taken = FALSE
    /\ prev = <<>>

\* A slip in solve: the consumer's locals are kept from the call before, as
\* attributes of the instance would be.
Call_keepsLocals(L) ==
    /\ pc = "ready"
    /\ self' = [a |-> self.a, b |-> self.b, L |-> L]
    /\ prev' = IF "L" \in DOMAIN self THEN <<self.L>> ELSE <<>>
    /\ evaluated' = <<>>
    /\ gen' = GenStart
    /\ IF self.a = 0
       THEN /\ outcome' = Raised("ZeroDivisionError")
            /\ pc' = "ready"
            /\ x_range' = 0
       ELSE /\ outcome' = NoOutcome
            /\ pc' = "scan"
            /\ x_range' = _getValidXRange(self')
    /\ UNCHANGED <<args, min_error, best_x_values, eq_taken>>

\* solve(L) up to the consumer's first request: _L is set, the range is
\* computed, the generator is created and _undercutMinError sets its locals.
Call(L) ==
    /\ pc = "ready"
    /\ self' = [a |-> self.a, b |-> self.b, L |-> L]
    /\ prev' = IF "L" \in DOMAIN self THEN <<self.L>> ELSE <<>>
    /\ evaluated' = <<>>
    /\ eq_taken' = UndercutStart.eq
    /\ gen' = GenStart
    /\ min_error' = UndercutStart.min_error
    /\ best_x_values' = UndercutStart.best_x_values
    /\ IF self.a = 0
       THEN /\ outcome' = Raised("ZeroDivisionError")
            /\ pc' = "ready"
            /\ x_range' = 0
       ELSE /\ outcome' = NoOutcome
            /\ pc' = "scan"
            /\ x_range' = _getValidXRange(self')
    /\ UNCHANGED args

\* The generator runs one pass of its loop: it computes the error of the
\* next x and either yields or goes on.  _y raises when b = 0, and the
\* exception leaves solve.
Resume ==
    /\ pc = "scan"
    /\ gen.x < x_range
    /\ IF self.b = 0
       THEN /\ outcome' = Raised("ZeroDivisionError")
            /\ pc' = "ready"
            /\ UNCHANGED <<gen, evaluated>>
       ELSE /\ gen' = GenBody(self, gen)
            /\ pc' = IF GenYields(self, gen) THEN "yielded" ELSE "scan"
            /\ evaluated' = Append(evaluated,
                                [x      |-> gen.x,
                                 y_real |-> _y(self, gen.x),
                                 y      |-> _max_y_int(_y(self, gen.x)),
                                 error  |-> _getError(self, gen.x)])
            /\ UNCHANGED outcome
    /\ UNCHANGED <<args, self, x_range, min_error, best_x_values, eq_taken,
                   prev>>

\* The consumer takes the yielded pair (min_error, min_x).
Consume ==
    /\ pc = "yielded"
    /\ LET u == UndercutBody([min_error     |-> min_error,
                              best_x_values |-> best_x_values,
                              eq            |-> eq_taken],
                             gen.min_error, gen.min_x[1])
       IN  /\ min_error' = u.min_error
           /\ best_x_values' = u.best_x_values
           /\ eq_taken' = u.eq
    /\ pc' = "scan"
    /\ UNCHANGED <<args, self, x_range, gen, outcome, evaluated, prev>>

\* The range is exhausted: the generator ends, the consumer's loop ends and
\* solve finishes.
Return ==
    /\ pc = "scan"
    /\ gen.x >= x_range
    /\ outcome' = SolveEnd(self, x_range, best_x_values)
    /\ pc' = "ready"
    /\ UNCHANGED <<args, self, x_range, gen, min_error, best_x_values,
                   evaluated, eq_taken, prev>>

Next ==
    \/ \E L \in Targets : Call(L)
    \/ Resume
    \/ Consume
    \/ Return

Spec == Init /\ [][Next]_vars

----------------------------------------------------------------------------
\* What the claims speak of, written from their own words.

\* a' and b': the larger and the smaller constructor argument.
LargerArg == IF args.a >= args.b THEN args.a ELSE args.b
SmallerArg == IF args.a >= args.b THEN args.b ELSE args.a

\* solve was called on the instance at least once.
Called == "L" \in DOMAIN self

\* The last solve is over.
Done == pc = "ready" /\ outcome.kind # "none"

\* Positive coefficients and a target L >= 0.
InScope == args.a > 0 /\ args.b > 0 /\ Called /\ self.L >= 0

\* floor(L / a'), for a' > 0.
XMax == self.L \div LargerArg

\* L - a'*x - b'*floor((L - a'*x) / b'), for b' > 0.
Residual(x) ==
    LET t == self.L - LargerArg * x
    IN  t - SmallerArg * (t \div SmallerArg)

\* The x of the search space that attain the minimal residual.
Minimisers ==
    {x \in 0..XMax : \A w \in 0..XMax : Residual(x) <= Residual(w)}

\* C1: when solve(L) is over, for positive coefficients and L >= 0, it has
\* returned the largest x among those of 0..floor(L/a') that attain the
\* minimal residual.
C1_TieBreakLargestX ==
    (InScope /\ Done) =>
        /\ outcome.kind = "returned"
        /\ outcome.x \in Minimisers
        /\ \A x \in Minimisers : x <= outcome.x

\* C2: when solve(L) is over, for positive coefficients and L >= 0, it has
\* returned a pair with y = floor((L - a'*x) / b') whose residual is no
\* larger than that of any x of 0..floor(L/a'); with a = 1.25, b = 0.8 and
\* L = 10 (25, 16 and 200 in units of 0.05) the pair is (8, 0).
C2_GlobalMinimum ==
    /\ (InScope /\ Done) =>
          /\ outcome.kind = "returned"
          /\ outcome.x \in 0..XMax
          /\ outcome.y = (self.L - LargerArg * outcome.x) \div SmallerArg
          /\ self.L - LargerArg * outcome.x - SmallerArg * outcome.y
                = Residual(outcome.x)
          /\ \A x \in 0..XMax : Residual(outcome.x) <= Residual(x)
    /\ solve(25, 16, 200) = Returned(8, 0, 9)

\* C2's case: a finished solve whose minimum is not at x = 0 and leaves a
\* positive residual.
C2_Witness ==
    /\ InScope /\ Done
    /\ outcome.kind = "returned"
    /\ outcome.x > 0
    /\ Residual(outcome.x) > 0
    /\ Residual(0) > Residual(outcome.x)

\* C3: an instance constructed with a <= 0 or b <= 0 is never used by solve:
\* whenever solve was called, both normalized coefficients are positive.
C3_InvalidCoefficientRejected ==
    Called => (args.a > 0 /\ args.b > 0 /\ self.a > 0 /\ self.b > 0)

\* C4: with positive coefficients, a finished solve(L) with L < 0 has raised
\* EmptySearchSpace and returned no pair.
C4_EmptySearchSpaceRaised ==
    (Done /\ args.a > 0 /\ args.b > 0 /\ self.L < 0) =>
        outcome = Raised("EmptySearchSpace")

C6_SearchSpaceComplete ==
    InScope =>
        /\ \A i \in DOMAIN evaluated : evaluated[i].x = i - 1
        /\ Len(evaluated) <= XMax + 1
        /\ Done => /\ outcome.kind = "returned"
                   /\ Len(evaluated) = XMax + 1
                   /\ outcome.len_resi = XMax + 1

\* C6's case: a finished solve over at least three candidates.
C6_Witness ==
    InScope /\ Done /\ XMax >= 2 /\ Len(evaluated) = XMax + 1

\* C7: the instance stores a' = max(a, b) and b' = min(a, b); Linfit(b, a)
\* stores the same pair, and a finished solve(L) has the outcome solve(L)
\* has on Linfit(b, a).
C7_Normalization ==
    LET swapped == _reduceResidualsInVarSwitching(args.b, args.a)
    IN  /\ self.a = LargerArg
        /\ self.b = SmallerArg
        /\ self.a >= self.b
        /\ {self.a, self.b} = {args.a, args.b}
        /\ swapped.a = self.a
        /\ swapped.b = self.b
        /\ Done => outcome = solve(swapped.a, swapped.b, self.L)

\* C7's case: the arguments came in the other order and solve returned.
C7_Witness ==
    args.a < args.b /\ Done /\ outcome.kind = "returned" /\ outcome.x > 0

\* C8: every solve leaves the normalized coefficients as the constructor
\* stored them, and a finished solve(L) has the outcome solve(L) has on a
\* newly constructed instance, whatever was solved before.
C8_SolvesIndependent ==
    LET fresh == _reduceResidualsInVarSwitching(args.a, args.b)
    IN  /\ self.a = fresh.a
        /\ self.b = fresh.b
        /\ Done => outcome = solve(fresh.a, fresh.b, self.L)

\* C8's case: a solve that returned after a solve of another L.
C8_Witness ==
    /\ Done
    /\ outcome.kind = "returned"
    /\ prev # <<>>
    /\ prev[1] # self.L
    /\ outcome.x > 0

C10_SmallestMinimiser ==
    /\ Len(best_x_values) <= 1
    /\ ~eq_taken
    /\ pc = "yielded" => Less(gen.min_error, min_error)
    /\ (InScope /\ Done) =>
          /\ outcome.kind = "returned"
          /\ outcome.x \in Minimisers
          /\ \A x \in Minimisers : outcome.x <= x

\* C10's case: several x attain the minimum and the smallest was returned.
C10_Witness ==
    /\ InScope /\ Done
    /\ outcome.kind = "returned"
    /\ Cardinality(Minimisers) >= 2
    /\ \A x \in Minimisers : outcome.x <= x

====
